---- MODULE Spec2Model ----
(***************************************************************************)
(* The tool-calling agent graphs of src/langgraph/basics:                  *)
(*   simple-agent.py        assistant <-> tools loop, one invocation       *)
(*   simple-tool-calling.py tool_calling_llm -> tools -> END, two          *)
(*                          invocations                                    *)
(*   agent-memory.py        assistant <-> tools loop compiled with a       *)
(*                          MemorySaver, two invocations on thread "1"     *)
(*   create_react_agent.py  the prebuilt agent <-> tools loop over the     *)
(*                          tool multiply, one invocation                  *)
(* The chat model is the environment: each model call either fails or      *)
(* answers with a final text or with tool-call requests.                   *)
(***************************************************************************)
EXTENDS Integers, Sequences, FiniteSets, TLC

VARIABLES
    graph,          \* the script whose compiled graph runs
    handle_all,     \* ToolNode's handle_tool_errors default: TRUE catches every
                    \* tool exception, FALSE lets an exception of the tool body through
    messages,       \* state["messages"] of the current invocation
    pc,             \* "idle", the node scheduled next, "router", END or "failed"
    step,           \* supersteps executed by the current invocation
    route,          \* value the last tools_condition call returned ("" before any)
    lastNode,       \* the node that completed last in this invocation
    invocations,    \* graph.invoke calls started
    checkpoint,     \* the messages MemorySaver holds for thread "1"
    fresh,          \* next unused identifier (message ids, tool-call ids)
    llmCalls,       \* llm_with_tools.invoke calls made
    completion,     \* order in which the last tools step's executions finished
    outcomes,       \* what the tool bodies of the last tools step returned or raised
    error,          \* exception that ended the script ("" while none)
    results,        \* the values the finished graph.invoke calls returned
    tool_call,      \* a direct call of a tool function: script, function, a, b
    tool_result,    \* what that call returned or raised
    runs            \* two invocations of one graph in flight at the same time

vars == <<graph, handle_all, messages, pc, step, route, lastNode, invocations,
          checkpoint, fresh, llmCalls, completion, outcomes, error, results,
          tool_call, tool_result, runs>>

\* the variables the scripts' own runs leave alone
aside == <<tool_call, tool_result, runs>>

(***************************************************************************)
(* Bounds of the exploration.                                              *)
(***************************************************************************)
\* tool-call requests one assistant message carries when parallel calls are on
MaxCalls == 2
\* assistant turns of one history on which the model picks its request freely;
\* on later turns it repeats its previous request or answers
MaxVaried == 2

(***************************************************************************)
(* Helpers on sequences.                                                   *)
(***************************************************************************)
Last(s) == s[Len(s)]

IsPrefix(s, t) == Len(s) <= Len(t) /\ SubSeq(t, 1, Len(s)) = s

Range(s) == {s[i] : i \in 1..Len(s)}

RECURSIVE JoinNames(_)
\* ", ".join(names)
JoinNames(names) ==
    IF Len(names) = 0 THEN ""
    ELSE IF Len(names) = 1 THEN names[1]
    ELSE names[1] \o ", " \o JoinNames(Tail(names))

RECURSIVE Gcd(_, _)
Gcd(m, n) == IF n = 0 THEN m ELSE Gcd(n, m % n)

(***************************************************************************)
(* The graphs.                                                             *)
(***************************************************************************)
END == "__end__"

Graphs == {"simple_agent", "simple_tool_calling", "agent_memory", "create_react_agent"}

\* names under which ToolNode registers the tools (tools_by_name), in order
tools(g) ==
    IF g = "simple_tool_calling" THEN <<"add", "multiply">>
    ELSE IF g = "create_react_agent" THEN <<"multiply">>
    ELSE <<"add_numbers", "multiply", "divide">>

\* bind_tools(..., parallel_tool_calls=False) limits a response to one request;
\* simple-tool-calling.py and create_react_agent.py do not pass it
parallel_tool_calls(g) == g \in {"simple_tool_calling", "create_react_agent"}

\* name of the node that calls the model
AgentNode(g) ==
    IF g = "simple_tool_calling" THEN "tool_calling_llm"
    ELSE IF g = "create_react_agent" THEN "agent"
    ELSE "assistant"

ToolsEdgeAlwaysEnd(g) == END

ToolsEdgeToRouter(g) == "router"

\* builder.add_edge("tools", ...)
ToolsEdge(g) == IF g = "simple_tool_calling" THEN END ELSE AgentNode(g)

HasCheckpointerNever(g) == FALSE

HasCheckpointerAlways(g) == TRUE

\* builder.compile(checkpointer=memory)
HasCheckpointer(g) == g = "agent_memory"

\* HumanMessage contents the script passes to its graph.invoke calls
Inputs(g) ==
    IF g = "simple_agent"
    THEN <<"Add 3 and 4. Multiply the output by 2. Divide the output by 5">>
    ELSE IF g = "simple_tool_calling"
    THEN <<"Hello, what is 2 multiplied by 2?", "Hello, what is 10 plus 2?">>
    ELSE IF g = "create_react_agent"
    THEN <<"What is 8 * 7?">>
    ELSE <<"Add 3 and 4", "Multiply the output by 2. Divide the output by 5">>

\* graph.invoke is called without recursion_limit: the default of 25 supersteps
RecursionLimit == 25

(***************************************************************************)
(* The tool bodies.  A call of a tool body either returns a value or       *)
(* raises; an int is num with den = 1, a float is the double nearest to    *)
(* the quotient num/den (in lowest terms); neg is the sign bit, which a    *)
(* zero carries too (0 / -2 is -0.0).                                      *)
(***************************************************************************)
Abs(n) == IF n < 0 THEN -n ELSE n

IntValue(n) ==
    [raised |-> FALSE, exc |-> "", kind |-> "int", num |-> n, den |-> 1, neg |-> n < 0]

FloatValue(n, d) ==
    LET g == Gcd(Abs(n), Abs(d))
        s == IF d < 0 THEN -1 ELSE 1
    IN  [raised |-> FALSE, exc |-> "", kind |-> "float",
         num |-> s * (n \div g), den |-> s * (d \div g), neg |-> (n < 0) # (d < 0)]

Raised(e) ==
    [raised |-> TRUE, exc |-> e, kind |-> "none", num |-> 0, den |-> 1, neg |-> FALSE]

\* return a * b
multiply(a, b) == IntValue(a * b)

add_subtracts(a, b) == IntValue(a - b)

\* return a + b
add(a, b) == IntValue(a + b)

divide_floors(a, b) ==
    IF b = 0 THEN Raised("ZeroDivisionError('division by zero')")
    ELSE FloatValue(a \div b, 1)

\* return a / b : true division of two ints, ZeroDivisionError when b == 0
divide(a, b) ==
    IF b = 0 THEN Raised("ZeroDivisionError('division by zero')")
    ELSE FloatValue(a, b)

\* the function ToolNode finds under a registered name
ToolBody(name, a, b) ==
    IF name \in {"add", "add_numbers"} THEN add(a, b)
    ELSE IF name = "multiply" THEN multiply(a, b)
    ELSE divide(a, b)

(***************************************************************************)
(* Naturals beyond the machine word: sequences of decimal digits, least    *)
(* significant digit first, no zero at the top; <<>> is 0.                 *)
(***************************************************************************)
Trim(x) ==
    LET nz == {i \in 1..Len(x) : x[i] # 0}
    IN  IF nz = {} THEN <<>>
        ELSE SubSeq(x, 1, CHOOSE i \in nz : \A j \in nz : j <= i)

RECURSIVE NatDigits(_)
NatDigits(n) == IF n = 0 THEN <<>> ELSE <<n % 10>> \o NatDigits(n \div 10)

\* 2 * x + c, c a bit
TwiceAdd(x, c) ==
    Trim([i \in 1..(Len(x) + 1) |->
            (IF i <= Len(x) THEN (2 * x[i]) % 10 ELSE 0)
            + (IF i = 1 THEN c ELSE IF x[i - 1] >= 5 THEN 1 ELSE 0)])

RECURSIVE TimesC(_, _, _)
\* x * f + c, for a small factor f
TimesC(x, f, c) ==
    IF x = <<>> THEN NatDigits(c)
    ELSE LET t == Head(x) * f + c
         IN  <<t % 10>> \o TimesC(Tail(x), f, t \div 10)

RECURSIVE Times5Pow(_, _)
\* x * 5^k
Times5Pow(x, k) ==
    IF k = 0 THEN x
    ELSE IF k >= 8 THEN Times5Pow(TimesC(x, 390625, 0), k - 8)
    ELSE Times5Pow(TimesC(x, 5, 0), k - 1)

\* x * 10^k
Shift(x, k) == IF x = <<>> THEN <<>> ELSE [i \in 1..k |-> 0] \o x

RECURSIVE AddC(_, _, _)
\* x + y + c
AddC(x, y, c) ==
    IF x = <<>> /\ y = <<>> THEN (IF c = 0 THEN <<>> ELSE <<c>>)
    ELSE LET t == (IF x = <<>> THEN 0 ELSE Head(x)) + (IF y = <<>> THEN 0 ELSE Head(y)) + c
         IN  <<t % 10>> \o AddC(IF x = <<>> THEN <<>> ELSE Tail(x),
                                IF y = <<>> THEN <<>> ELSE Tail(y), t \div 10)

RECURSIVE SubB(_, _, _)
\* x - y - b, for x >= y + b
SubB(x, y, b) ==
    IF x = <<>> THEN <<>>
    ELSE LET t == Head(x) - (IF y = <<>> THEN 0 ELSE Head(y)) - b
         IN  <<IF t < 0 THEN t + 10 ELSE t>>
             \o SubB(Tail(x), IF y = <<>> THEN <<>> ELSE Tail(y), IF t < 0 THEN 1 ELSE 0)

Less(x, y) ==
    \/ Len(x) < Len(y)
    \/ /\ Len(x) = Len(y)
       /\ \E i \in 1..Len(x) :
             /\ x[i] < y[i]
             /\ \A j \in (i + 1)..Len(x) : x[j] = y[j]

(***************************************************************************)
(* The double nearest to n/d (n, d > 0): binary long division to 53        *)
(* significant bits, rounded to nearest, ties to even.  The result is      *)
(* mant / 2^k, with `two` telling that it is a power of two.               *)
(***************************************************************************)
RECURSIVE BitLen(_)
BitLen(n) == IF n = 0 THEN 0 ELSE 1 + BitLen(n \div 2)

Pow2_52 == <<6, 9, 4, 0, 7, 3, 7, 2, 6, 9, 9, 5, 3, 0, 5, 4>>

Pow2_53 == <<2, 9, 9, 0, 4, 7, 4, 5, 2, 9, 9, 1, 7, 0, 0, 9>>

\* the mantissa is kept in two words: hi * 2^26 + lo
Word == 67108864

RECURSIVE NearestDouble(_, _, _, _, _, _)
\* hi, lo: the bits taken so far, cnt: how many of them are significant,
\* k: how many of them are fraction bits, r: the remainder
NearestDouble(hi, lo, cnt, k, r, d) ==
    LET bit == IF 2 * r >= d THEN 1 ELSE 0
        rest == 2 * r - bit * d
        low == 2 * lo + bit
    IN  IF cnt < 53
        THEN NearestDouble(IF low >= Word THEN 2 * hi + 1 ELSE 2 * hi,
                           IF low >= Word THEN low - Word ELSE low,
                           IF hi = 0 /\ lo = 0 /\ bit = 0 THEN 0 ELSE cnt + 1,
                           k + 1, rest, d)
        ELSE LET up == bit = 1 /\ (rest # 0 \/ lo % 2 = 1)
             IN  [mant |-> TimesC(NatDigits(hi), Word, lo + (IF up THEN 1 ELSE 0)),
                  k |-> k]

(***************************************************************************)
(* repr of the double: the shortest decimal digits that read back as the   *)
(* same double, the closest to it when several do.                         *)
(***************************************************************************)
\* the digits of x from the top down to its lowest non-zero digit
Significant(x) ==
    LET low == CHOOSE i \in 1..Len(x) : x[i] # 0 /\ \A j \in 1..(i - 1) : x[j] = 0
    IN  [i \in 1..(Len(x) - low + 1) |-> x[Len(x) - i + 1]]

RECURSIVE Text(_)
\* a sequence of digits as text
Text(ds) == IF ds = <<>> THEN "" ELSE ToString(Head(ds)) \o Text(Tail(ds))

RECURSIVE Zeros(_)
Zeros(n) == IF n <= 0 THEN "" ELSE "0" \o Zeros(n - 1)

RECURSIVE Shortest(_, _, _, _, _)
\* the n-digit decimals next to the double on either side; the one inside
\* [lo, hi] (bounds included when the mantissa is even), the nearer of two
Shortest(n, dd, lo, hi, even) ==
    LET T == Len(dd)
        F == Trim([i \in 1..T |-> IF i > T - n THEN dd[i] ELSE 0])
        G == AddC(F, Shift(<<1>>, T - n), 0)
        In(c) == IF even THEN ~Less(c, lo) /\ ~Less(hi, c) ELSE Less(lo, c) /\ Less(c, hi)
        twice == TwiceAdd(dd, 0)
        sum == AddC(F, G, 0)
        nearer == IF Less(twice, sum) THEN F
                  ELSE IF Less(sum, twice) THEN G
                  ELSE IF dd[T - n + 1] % 2 = 0 THEN F ELSE G
    IN  IF n >= T THEN dd
        ELSE IF In(F) /\ In(G) THEN nearer
        ELSE IF In(F) THEN F
        ELSE IF In(G) THEN G
        ELSE Shortest(n + 1, dd, lo, hi, even)

\* float.__repr__ of the double nearest to n/d, n >= 0, d > 0
float_repr(n, d) ==
    IF n = 0 THEN "0.0"
    ELSE
    LET ip == n \div d
        nd == NearestDouble(ip \div Word, ip % Word, BitLen(ip), 0, n % d, d)
        k == nd.k
        up == nd.mant = Pow2_53
        two == up \/ nd.mant = Pow2_52
        \* in units of 10^-(k+2)
        dd == Shift(Times5Pow(nd.mant, k), 2)
        above == IF up THEN Shift(Times5Pow(<<1>>, k), 2)
                 ELSE Shift(Times5Pow(<<1>>, k + 1), 1)
        below == IF up THEN Shift(Times5Pow(<<1>>, k + 1), 1)
                 ELSE IF two THEN Times5Pow(<<1>>, k + 2)
                 ELSE Shift(Times5Pow(<<1>>, k + 1), 1)
        c == Shortest(1, dd, SubB(dd, below, 0), AddC(dd, above, 0),
                      two \/ nd.mant[1] % 2 = 0)
        digits == Significant(c)
        decpt == Len(c) - (k + 2)
        nd1 == Len(digits)
        e == decpt - 1
    IN  IF decpt <= -4 \/ decpt > 16
        THEN Text(SubSeq(digits, 1, 1))
             \o (IF nd1 > 1 THEN "." \o Text(SubSeq(digits, 2, nd1)) ELSE "")
             \o "e" \o (IF e < 0 THEN "-" ELSE "+")
             \o (IF e > -10 /\ e < 10 THEN "0" ELSE "")
             \o ToString(IF e < 0 THEN -e ELSE e)
        ELSE IF decpt <= 0 THEN "0." \o Zeros(-decpt) \o Text(digits)
        ELSE IF decpt >= nd1 THEN Text(digits) \o Zeros(decpt - nd1) \o ".0"
        ELSE Text(SubSeq(digits, 1, decpt)) \o "." \o Text(SubSeq(digits, decpt + 1, nd1))

\* json.dumps of a tool's return value, the content of its ToolMessage: an int
\* prints as its digits, a float as float.__repr__ prints the double
stringify(v) ==
    IF v.kind = "int" THEN ToString(v.num)
    ELSE (IF v.neg THEN "-" ELSE "") \o float_repr(Abs(v.num), v.den)

(***************************************************************************)
(* Messages.  Every message is a record of the same shape; id 0 is a       *)
(* message that has no id yet.                                             *)
(***************************************************************************)
HumanMessage(content) ==
    [type |-> "human", content |-> content, tool_calls |-> <<>>,
     tool_call_id |-> 0, name |-> "", status |-> "", id |-> 0]

AIMessage(content, calls, id) ==
    [type |-> "ai", content |-> content, tool_calls |-> calls,
     tool_call_id |-> 0, name |-> "", status |-> "", id |-> id]

ToolMessage(content, name, tool_call_id, status) ==
    [type |-> "tool", content |-> content, tool_calls |-> <<>>,
     tool_call_id |-> tool_call_id, name |-> name, status |-> status, id |-> 0]

\* messages without an id get a new one
AssignIds(msgs, start) ==
    [i \in 1..Len(msgs) |->
        IF msgs[i].id = 0 THEN [msgs[i] EXCEPT !.id = start + i - 1] ELSE msgs[i]]

RECURSIVE MergeById(_, _)
MergeById(left, right) ==
    IF right = <<>> THEN left
    ELSE LET m == Head(right)
             hit == {i \in 1..Len(left) : left[i].id = m.id}
         IN  IF hit = {} THEN MergeById(Append(left, m), Tail(right))
             ELSE MergeById([left EXCEPT ![CHOOSE i \in hit : TRUE] = m], Tail(right))

add_messages_overwrites(left, right, start) == AssignIds(right, start)

\* the reducer of MessagesState: a message with a known id replaces the one that
\* has it, any other message is appended
add_messages(left, right, start) == MergeById(left, AssignIds(right, start))

(***************************************************************************)
(* The router: langgraph.prebuilt.tools_condition on the conditional edge  *)
(* of the agent node.                                                      *)
(***************************************************************************)
tools_condition_any_ai(msgs) ==
    IF Last(msgs).type = "ai" THEN "tools" ELSE END

tools_condition_never(msgs) == END

\* "tools" when the last message carries tool calls, "__end__" otherwise
tools_condition(msgs) ==
    IF Len(Last(msgs).tool_calls) > 0 THEN "tools" ELSE END

(***************************************************************************)
(* The tool executor: langgraph.prebuilt.ToolNode over the registry.       *)
(***************************************************************************)
Registered(call, g) == call.name \in Range(tools(g))

InvalidToolContent(call, g) ==
    "Error: " \o call.name \o " is not a valid tool, try one of [" \o
    JoinNames(tools(g)) \o "]."

\* what the tool body of one request returns or raises; a request that names no
\* registered tool runs no body
Outcome(call, g) ==
    IF Registered(call, g) THEN ToolBody(call.name, call.args.a, call.args.b)
    ELSE [raised |-> FALSE, exc |-> "", kind |-> "invalid", num |-> 0, den |-> 1,
          neg |-> FALSE]

run_one_first_id(calls, i, g) ==
    LET m == IF ~Registered(calls[i], g)
             THEN ToolMessage(InvalidToolContent(calls[i], g), calls[i].name,
                              calls[1].id, "error")
             ELSE ToolMessage(stringify(Outcome(calls[i], g)), calls[i].name,
                              calls[1].id, "success")
    IN  m

run_one_unknown_ok(calls, i, g) ==
    ToolMessage("", calls[i].name, calls[i].id, "success")

\* the ToolMessage for request i of the assistant message: an unknown name and
\* a handled exception become an error text, a return value its json form;
\* every message carries the id of its request
run_one(calls, i, g) ==
    LET call == calls[i]
        out == Outcome(call, g)
    IN  IF ~Registered(call, g)
        THEN ToolMessage(InvalidToolContent(call, g), call.name, call.id, "error")
        ELSE IF out.raised
        THEN ToolMessage("Error: " \o out.exc \o "\n Please fix your mistakes.",
                         call.name, call.id, "error")
        ELSE ToolMessage(stringify(out), call.name, call.id, "success")

executor_map_as_completed(calls, order, g) ==
    [k \in 1..Len(calls) |-> run_one(calls, order[k], g)]

\* executor.map(self._run_one, tool_calls): the executions finish in the order
\* `order`, the outputs are collected in the order of the requests
executor_map(calls, order, g) ==
    [i \in 1..Len(calls) |-> run_one(calls, i, g)]

\* an exception of a tool body leaves the node when ToolNode does not catch it
Propagates(calls, g, catch) ==
    ~catch /\ \E i \in 1..Len(calls) : Outcome(calls[i], g).raised

(***************************************************************************)
(* The chat model (environment).                                           *)
(***************************************************************************)
Request(n, a, b) == [name |-> n, a |-> a, b |-> b]

\* the requests the model chooses from
CallMenu(g) ==
    IF g = "simple_tool_calling"
    THEN {Request("add", 3, 4), Request("multiply", 2, 2), Request("add", 10, 2),
          Request("subtract", 3, 4)}
    ELSE IF g = "create_react_agent"
    THEN {Request("multiply", 8, 7), Request("add", 8, 7)}
    ELSE {Request("add_numbers", 3, 4), Request("add", 3, 4),
          Request("multiply", 7, 2), Request("divide", 14, 5),
          Request("divide", 7, 0), Request("subtract", 3, 4)}

Plans(g) ==
    UNION {[1..n -> CallMenu(g)] :
              n \in 1..(IF parallel_tool_calls(g) THEN MaxCalls ELSE 1)}

ToolTurns(msgs) == Cardinality({i \in 1..Len(msgs) : Len(msgs[i].tool_calls) > 0})

LastPlan(msgs) ==
    LET i == CHOOSE j \in 1..Len(msgs) :
                 /\ Len(msgs[j].tool_calls) > 0
                 /\ \A k \in (j + 1)..Len(msgs) : Len(msgs[k].tool_calls) = 0
        c == msgs[i].tool_calls
    IN  [k \in 1..Len(c) |-> Request(c[k].name, c[k].args.a, c[k].args.b)]

\* the requesting turns on which the model picks freely; the loop whose turns
\* may carry several requests has the widest choice per turn and one turn fewer
Varied(g) == IF g = "create_react_agent" THEN MaxVaried - 1 ELSE MaxVaried

\* The responses explored: <<>> is an answer without tool calls.  The model
\* picks its requests freely on its first Varied(g) requesting turns and repeats
\* its previous request afterwards; it answers on one of its first Varied(g) + 1
\* turns or on the last superstep the recursion limit allows, or never.
Responses(g, msgs, s) ==
    (IF ToolTurns(msgs) <= Varied(g) \/ s = RecursionLimit - 1 THEN {<<>>} ELSE {})
    \cup (IF ToolTurns(msgs) < Varied(g) THEN Plans(g) ELSE {LastPlan(msgs)})

\* the AIMessage of a response; the provider numbers the message and its requests
Response(plan, start) ==
    AIMessage(IF plan = <<>> THEN "final" ELSE "",
              [i \in 1..Len(plan) |->
                  [name |-> plan[i].name,
                   args |-> [a |-> plan[i].a, b |-> plan[i].b],
                   id |-> start + i]],
              start)

assistant_drops(response) == <<>>

\* return {"messages": [llm_with_tools.invoke(...)]}
assistant(response) == <<response>>

NeedMoreSteps == "Sorry, need more steps to process this request."

\* the agent node create_react_agent builds: after s supersteps, on the last
\* step the recursion limit allows, it replaces a response that requests tools
call_model(response, s) ==
    IF s >= RecursionLimit - 1 /\ Len(response.tool_calls) > 0
    THEN <<AIMessage(NeedMoreSteps, <<>>, response.id)>>
    ELSE <<response>>

\* what the agent node of graph g returns for a response of the model
AgentOutput(g, response, s) ==
    IF g = "create_react_agent" THEN call_model(response, s) ELSE assistant(response)

(***************************************************************************)
(* The state machine.                                                      *)
(***************************************************************************)
\* no direct call of a tool function is made
NoCall == [script |-> "", name |-> "", a |-> 0, b |-> 0]

NoResult ==
    [raised |-> FALSE, exc |-> "", kind |-> "pending", num |-> 0, den |-> 1, neg |-> FALSE]

\* graph.invoke returns the state when the run reaches END
Returned(next, msgs) == IF next = END THEN Append(results, msgs) ELSE results

Init ==
    /\ graph \in Graphs
    /\ handle_all \in BOOLEAN
    /\ messages = <<>>
    /\ pc = "idle"
    /\ step = 0
    /\ route = ""
    /\ lastNode = ""
    /\ invocations = 0
    /\ checkpoint = <<>>
    /\ fresh = 1
    /\ llmCalls = 0
    /\ completion = <<>>
    /\ outcomes = <<>>
    /\ error = ""
    /\ results = <<>>
    /\ tool_call = NoCall
    /\ tool_result = NoResult
    /\ runs = <<>>

Saved(msgs) == IF HasCheckpointer(graph) THEN msgs ELSE checkpoint

\* messages = graph.invoke({"messages": messages}[, config])
Invoke ==
    /\ pc \in {"idle", END}
    /\ invocations < Len(Inputs(graph))
    /\ messages' = add_messages(IF HasCheckpointer(graph) THEN checkpoint ELSE <<>>,
                                <<HumanMessage(Inputs(graph)[invocations + 1])>>,
                                fresh)
    /\ fresh' = fresh + 1
    /\ checkpoint' = Saved(messages')
    /\ invocations' = invocations + 1
    /\ pc' = AgentNode(graph)
    /\ step' = 0
    /\ route' = ""
    /\ lastNode' = ""
    /\ completion' = <<>>
    /\ outcomes' = <<>>
    /\ UNCHANGED <<graph, handle_all, llmCalls, error, results>>
    /\ UNCHANGED aside

\* the agent node, the model call answering
Assistant ==
    /\ pc = AgentNode(graph)
    /\ step < RecursionLimit
    /\ \E plan \in Responses(graph, messages, step) :
          /\ messages' = add_messages(messages,
                                      AgentOutput(graph, Response(plan, fresh), step),
                                      fresh)
          /\ fresh' = fresh + 1 + Len(plan)
    /\ llmCalls' = llmCalls + 1
    /\ checkpoint' = Saved(messages')
    /\ pc' = "router"
    /\ step' = step + 1
    /\ route' = ""
    /\ lastNode' = AgentNode(graph)
    /\ UNCHANGED <<graph, handle_all, invocations, completion, outcomes, error, results>>
    /\ UNCHANGED aside

\* the agent node, the model call raising (no key, no network): uncaught
AssistantFails ==
    /\ pc = AgentNode(graph)
    /\ step < RecursionLimit
    /\ llmCalls' = llmCalls + 1
    /\ pc' = "failed"
    /\ error' = "APIConnectionError"
    /\ UNCHANGED <<graph, handle_all, messages, step, route, lastNode, invocations,
                   checkpoint, fresh, completion, outcomes, results>>
    /\ UNCHANGED aside

\* the conditional edge of the agent node
Route ==
    /\ pc = "router"
    /\ route' = tools_condition(messages)
    /\ pc' = route'
    /\ results' = Returned(pc', messages)
    /\ UNCHANGED <<graph, handle_all, messages, step, lastNode, invocations,
                   checkpoint, fresh, llmCalls, completion, outcomes, error>>
    /\ UNCHANGED aside

\* the tools node
Tools ==
    /\ pc = "tools"
    /\ step < RecursionLimit
    /\ LET calls == Last(messages).tool_calls
       IN  /\ ~Propagates(calls, graph, handle_all)
           /\ \E order \in Permutations(1..Len(calls)) :
                 /\ completion' = order
                 /\ messages' = add_messages(messages,
                                             executor_map(calls, order, graph), fresh)
           /\ outcomes' = [i \in 1..Len(calls) |-> Outcome(calls[i], graph)]
           /\ fresh' = fresh + Len(calls)
    /\ checkpoint' = Saved(messages')
    /\ pc' = ToolsEdge(graph)
    /\ step' = step + 1
    /\ route' = ""
    /\ lastNode' = "tools"
    /\ results' = Returned(pc', messages')
    /\ UNCHANGED <<graph, handle_all, invocations, llmCalls, error>>
    /\ UNCHANGED aside

\* the tools node, a tool body raising past ToolNode: uncaught
ToolsRaise ==
    /\ pc = "tools"
    /\ step < RecursionLimit
    /\ LET calls == Last(messages).tool_calls
       IN  /\ Propagates(calls, graph, handle_all)
           /\ outcomes' = [i \in 1..Len(calls) |-> Outcome(calls[i], graph)]
    /\ pc' = "failed"
    /\ error' = "ZeroDivisionError"
    /\ UNCHANGED <<graph, handle_all, messages, step, route, lastNode, invocations,
                   checkpoint, fresh, llmCalls, completion, results>>
    /\ UNCHANGED aside

\* a node is due after RecursionLimit supersteps: GraphRecursionError
OutOfSteps ==
    /\ pc \in {AgentNode(graph), "tools"}
    /\ step >= RecursionLimit
    /\ pc' = "failed"
    /\ error' = "GraphRecursionError"
    /\ UNCHANGED <<graph, handle_all, messages, step, route, lastNode, invocations,
                   checkpoint, fresh, llmCalls, completion, outcomes, results>>
    /\ UNCHANGED aside

Next ==
    \/ Invoke
    \/ Assistant
    \/ AssistantFails
    \/ Route
    \/ Tools
    \/ ToolsRaise
    \/ OutOfSteps

Spec == Init /\ [][Next]_vars

(***************************************************************************)
(* Vocabulary of the properties.                                           *)
(***************************************************************************)
LoopGraph == graph # "simple_tool_calling"

\* the hand-built loops of simple-agent.py and agent-memory.py
AssistantLoop == graph \in {"simple_agent", "agent_memory"}

Pending(m) == Len(m.tool_calls) > 0

\* a tools step completes in this transition
ToolsStepDone == pc = "tools" /\ lastNode' = "tools" /\ step' = step + 1

\* position of the human message that opened the current invocation
RunStart ==
    CHOOSE i \in 1..Len(messages) :
        /\ messages[i].type = "human"
        /\ \A j \in (i + 1)..Len(messages) : messages[j].type # "human"

\* the model has answered without tool calls in the current invocation
Answered ==
    /\ Len(messages) > 0
    /\ \E i \in (RunStart + 1)..Len(messages) :
          /\ messages[i].type = "ai"
          /\ ~Pending(messages[i])
          /\ messages[i].content = "final"

\* the agent node of create_react_agent has answered in the model's place
SteppedOut ==
    /\ Len(messages) > 0
    /\ Last(messages).type = "ai"
    /\ ~Pending(Last(messages))
    /\ Last(messages).content = "Sorry, need more steps to process this request."

(***************************************************************************)
(* C1: whenever the Router has returned, it returned "tools" exactly when  *)
(* the last message of the history is an assistant message with at least   *)
(* one pending tool call, and the terminal state "__end__" otherwise.      *)
(***************************************************************************)
C1_RouterIff ==
    route # "" =>
        /\ route \in {"tools", END}
        /\ route = "tools" <=> (Last(messages).type = "ai" /\ Pending(Last(messages)))

C1_Witness == route = "tools" /\ pc = "tools" /\ Pending(Last(messages))

(***************************************************************************)
(* C2 as stated: in every graph a completed tools step hands over to the   *)
(* agent node, and the terminal state is entered only by the Router.       *)
(***************************************************************************)
C2_EveryGraphLoops ==
    [][ /\ ToolsStepDone => pc' = AgentNode(graph)
        /\ (pc' = END /\ pc # END) => pc = "router" ]_vars

(***************************************************************************)
(* C2 amended: in simple-agent.py, agent-memory.py and                     *)
(* create_react_agent.py a completed tools step hands over to the agent    *)
(* node and the terminal state is entered only by the Router after an      *)
(* agent step; in simple-tool-calling.py a completed tools step enters the *)
(* terminal state directly.                                                *)
(***************************************************************************)
C2_ToolsEdge ==
    [][ /\ ToolsStepDone =>
              pc' = (IF LoopGraph THEN AgentNode(graph) ELSE END)
        /\ (pc' = END /\ pc # END) =>
              \/ pc = "router" /\ lastNode = AgentNode(graph)
              \/ ~LoopGraph /\ pc = "tools" ]_vars

C2_Witness ==
    /\ graph = "simple_agent"
    /\ pc = "router"
    /\ Len(messages) >= 3
    /\ messages[Len(messages) - 1].type = "tool"
    /\ Last(messages).type = "ai"

(***************************************************************************)
(* C3 as stated: the terminal state is reached exactly by a model answer   *)
(* without pending tool calls, and no iteration cap ever ends a run.       *)
(***************************************************************************)
C3_OnlyAnswerEndsNoCap ==
    /\ pc = END => Answered
    /\ Answered => pc \in {"router", END}
    /\ error # "GraphRecursionError"

(***************************************************************************)
(* C3 amended: in simple-agent.py and agent-memory.py the terminal state   *)
(* is reached exactly by a model answer without pending tool calls; in     *)
(* simple-tool-calling.py it is also reached right after the tools step.   *)
(* The scripts set no iteration cap, but graph.invoke's default recursion  *)
(* limit ends a run of those two loops that still requests tools after 25  *)
(* supersteps with GraphRecursionError; in create_react_agent.py the agent *)
(* node, on the last superstep the limit allows, answers "Sorry, need more *)
(* steps to process this request." in place of a response that requests    *)
(* tools, and the run reaches the terminal state without a model answer.   *)
(***************************************************************************)
C3_AnswerOrLimit ==
    /\ pc = END => (Answered \/ (~LoopGraph /\ lastNode = "tools") \/ SteppedOut)
    /\ Answered => pc \in {"router", END}
    /\ error = "GraphRecursionError" =>
          /\ step = RecursionLimit
          /\ AssistantLoop
          /\ ~Answered
          /\ Pending(Last(messages))
    /\ (pc = "failed" /\ step < RecursionLimit) => error # "GraphRecursionError"
    /\ SteppedOut =>
          /\ graph = "create_react_agent"
          /\ step = RecursionLimit
          /\ pc \in {"router", END}
          /\ ~Answered

C3_Witness ==
    /\ LoopGraph
    /\ pc = END
    /\ Answered
    /\ step >= 3

(***************************************************************************)
(* C4: in every reachable history each Tool Result carries the call id of  *)
(* exactly one Tool Call Request that stands earlier in the history, and   *)
(* no Tool Call Request is answered by more than one Tool Result.          *)
(***************************************************************************)
ResultPositions == {i \in 1..Len(messages) : messages[i].type = "tool"}

\* <<j, k>>: message j is an assistant message and carries a k-th request
RequestPositions ==
    UNION {{<<j, k>> : k \in 1..Len(messages[j].tool_calls)} :
              j \in {i \in 1..Len(messages) : messages[i].type = "ai"}}

RequestId(jk) == messages[jk[1]].tool_calls[jk[2]].id

C4_ResultsMatchRequests ==
    /\ \A i \in ResultPositions :
          Cardinality({jk \in RequestPositions :
                          RequestId(jk) = messages[i].tool_call_id}) = 1
          /\ \E jk \in RequestPositions :
                jk[1] < i /\ RequestId(jk) = messages[i].tool_call_id
    /\ \A jk \in RequestPositions :
          Cardinality({i \in ResultPositions :
                          messages[i].tool_call_id = RequestId(jk)}) <= 1

C4_Witness ==
    /\ Len(messages) >= 4
    /\ Len(messages[2].tool_calls) = 2
    /\ messages[3].type = "tool"
    /\ messages[4].type = "tool"
    /\ messages[3].tool_call_id # messages[4].tool_call_id

(***************************************************************************)
(* C5: one tools step on an assistant message with requests r1..rn appends *)
(* exactly n Tool Results, the i-th answering ri, in whatever order the    *)
(* executions finished.                                                    *)
(***************************************************************************)
C5_RequestOrder ==
    [][ ToolsStepDone =>
          LET calls == Last(messages).tool_calls
              n == Len(calls)
              base == Len(messages)
          IN  /\ Len(messages') = base + n
              /\ SubSeq(messages', 1, base) = messages
              /\ \A i \in 1..n :
                    /\ messages'[base + i].type = "tool"
                    /\ messages'[base + i].tool_call_id = calls[i].id
                    /\ messages'[base + i].name = calls[i].name ]_vars

C5_Witness ==
    /\ lastNode = "tools"
    /\ completion = <<2, 1>>
    /\ Len(messages) = 4
    /\ messages[2].tool_calls[1].name = "add"
    /\ messages[2].tool_calls[2].name = "multiply"
    /\ messages[3].tool_call_id = messages[2].tool_calls[1].id
    /\ messages[3].content = "7"
    /\ messages[4].tool_call_id = messages[2].tool_calls[2].id
    /\ messages[4].content = "4"

(***************************************************************************)
(* C6 as stated: a tools step on a request that names an unregistered tool *)
(* appends an error-text Tool Result tagged with the request's id, does    *)
(* not fail the run, and hands over to the agent node.                     *)
(***************************************************************************)
UnknownRequested ==
    /\ pc = "tools"
    /\ step < RecursionLimit
    /\ \E i \in 1..Len(Last(messages).tool_calls) :
          Last(messages).tool_calls[i].name \notin Range(tools(graph))

ErrorResults ==
    LET calls == Last(messages).tool_calls
        base == Len(messages)
    IN  /\ Len(messages') = base + Len(calls)
        /\ \A i \in 1..Len(calls) :
              calls[i].name \notin Range(tools(graph)) =>
                 /\ messages'[base + i].type = "tool"
                 /\ messages'[base + i].status = "error"
                 /\ messages'[base + i].tool_call_id = calls[i].id
                 /\ calls[i].name = "subtract" =>
                       messages'[base + i].content \in
                          {"Error: subtract is not a valid tool, try one of [add_numbers, multiply, divide].",
                           "Error: subtract is not a valid tool, try one of [add, multiply]."}
                 /\ (calls[i].name = "add" /\ graph = "create_react_agent") =>
                       messages'[base + i].content =
                          "Error: add is not a valid tool, try one of [multiply]."

C6_UnknownToolThenAgent ==
    [][ UnknownRequested =>
          /\ ErrorResults
          /\ error' = ""
          /\ pc' = AgentNode(graph) ]_vars

(***************************************************************************)
(* C6 amended: a tools step on a request that names an unregistered tool   *)
(* appends an error-text Tool Result tagged with the request's id and does *)
(* not fail the run; the next step is an agent step in simple-agent.py,    *)
(* agent-memory.py and create_react_agent.py, and the run ends there in    *)
(* simple-tool-calling.py.                                                 *)
(***************************************************************************)
C6_UnknownToolRecovered ==
    [][ UnknownRequested =>
          /\ ErrorResults
          /\ error' = ""
          /\ pc' = (IF LoopGraph THEN AgentNode(graph) ELSE END) ]_vars

C6_Witness ==
    /\ LoopGraph
    /\ lastNode = "tools"
    /\ pc = AgentNode(graph)
    /\ Last(messages).name = "subtract"
    /\ Last(messages).status = "error"
    /\ error = ""

(***************************************************************************)
(* C7 as stated: a tools step on the single request add{a:3,b:4} appends a *)
(* Tool Result with content 7, and a run in which the model made that      *)
(* request ends with an assistant message without pending tool calls as    *)
(* the last message.                                                       *)
(***************************************************************************)
\* the pending requests are the single request `name`{a:3, b:4}
SoleRequest(name) ==
    /\ pc = "tools"
    /\ step < RecursionLimit
    /\ Len(Last(messages).tool_calls) = 1
    /\ Last(messages).tool_calls[1].name = name
    /\ Last(messages).tool_calls[1].args = [a |-> 3, b |-> 4]

\* the step appends the Tool Result "7" for the single pending request
AppendsSeven ==
    /\ Len(messages') = Len(messages) + 1
    /\ Last(messages').type = "tool"
    /\ Last(messages').content = "7"
    /\ Last(messages').status = "success"
    /\ Last(messages').tool_call_id = Last(messages).tool_calls[1].id

\* the model requested `name`{a:3, b:4} in the invocation that `msgs` records
RequestedInRun(msgs, name) ==
    \E i \in 1..Len(msgs) :
        /\ \A j \in i..Len(msgs) : msgs[j].type # "human"
        /\ \E k \in 1..Len(msgs[i].tool_calls) :
              /\ msgs[i].tool_calls[k].name = name
              /\ msgs[i].tool_calls[k].args = [a |-> 3, b |-> 4]

EndsOnAnswer ==
    (pc' = END /\ pc # END) => (Last(messages').type = "ai" /\ ~Pending(Last(messages')))

C7_AddByNameAdd ==
    [][ /\ SoleRequest("add") => AppendsSeven
        /\ RequestedInRun(messages', "add") => EndsOnAnswer ]_vars

(***************************************************************************)
(* C7 amended: the tool is registered as `add_numbers` in simple-agent.py  *)
(* and agent-memory.py and as `add` in simple-tool-calling.py.  A tools    *)
(* step on the single request to that name with {a:3,b:4} appends a Tool   *)
(* Result with content "7"; in simple-agent.py and agent-memory.py a run   *)
(* with that request that reaches the terminal state ends with an          *)
(* assistant message without pending tool calls, in simple-tool-calling.py *)
(* it ends with the Tool Result as the last message; in simple-agent.py    *)
(* and agent-memory.py a request to `add` is answered by an error text.    *)
(* (create_react_agent.py registers no addition tool.)                     *)
(***************************************************************************)
AddName == IF AssistantLoop THEN "add_numbers" ELSE "add"

C7_AddByRegisteredName ==
    [][ /\ (graph # "create_react_agent" /\ SoleRequest(AddName)) => AppendsSeven
        /\ (AssistantLoop /\ RequestedInRun(messages', AddName)) => EndsOnAnswer
        /\ (graph = "simple_tool_calling" /\ SoleRequest(AddName)) =>
              (pc' = END /\ Last(messages').type = "tool")
        /\ (AssistantLoop /\ SoleRequest("add")) =>
              /\ Last(messages').status = "error"
              /\ Last(messages').content =
                    "Error: add is not a valid tool, try one of [add_numbers, multiply, divide]." ]_vars

C7_Witness ==
    /\ graph = "agent_memory"
    /\ pc = END
    /\ invocations = 1
    /\ Len(messages) = 4
    /\ messages[1].content = "Add 3 and 4"
    /\ messages[2].tool_calls[1].name = "add_numbers"
    /\ messages[3].content = "7"
    /\ messages[4].type = "ai"
    /\ ~Pending(messages[4])

(***************************************************************************)
(* C8: within one invocation the history only grows: an agent step and a   *)
(* tools step leave the previous history as a prefix of the new one, and   *)
(* the Router leaves the history unchanged.                                *)
(***************************************************************************)
C8_AppendOnly ==
    [][ /\ pc \in {AgentNode(graph), "tools"} => IsPrefix(messages, messages')
        /\ pc = "router" => messages' = messages ]_vars

C8_Witness ==
    /\ lastNode = "tools"
    /\ Len(messages) >= 5
    /\ messages[1].type = "human"

(***************************************************************************)
(* C9: an agent step calls the model exactly once: when the call answers,  *)
(* exactly one assistant message is appended; when it fails, the run is in *)
(* the failed state with the history unchanged, and no model call follows. *)
(***************************************************************************)
C9_OneModelCall ==
    [][ /\ (pc = AgentNode(graph) /\ step < RecursionLimit) =>
              /\ llmCalls' = llmCalls + 1
              /\ pc' \in {"router", "failed"}
              /\ pc' = "router" =>
                    /\ Len(messages') = Len(messages) + 1
                    /\ SubSeq(messages', 1, Len(messages)) = messages
                    /\ Last(messages').type = "ai"
              /\ pc' = "failed" =>
                    /\ messages' = messages
                    /\ error' = "APIConnectionError"
        /\ pc # AgentNode(graph) => llmCalls' = llmCalls
        /\ pc = "failed" => pc' = "failed" ]_vars

C9_Witness ==
    /\ pc = "failed"
    /\ error = "APIConnectionError"
    /\ llmCalls = 2
    /\ Len(messages) = 3
    /\ Last(messages).type = "tool"

(***************************************************************************)
(* C10 as stated: a division by zero is handled: no tool body ends in an   *)
(* unguarded fault, and no run crashes on a ZeroDivisionError.             *)
(***************************************************************************)
C10_DivisionByZeroHandled ==
    /\ \A i \in 1..Len(outcomes) : ~outcomes[i].raised
    /\ error # "ZeroDivisionError"

(***************************************************************************)
(* The tool functions called directly, script by script.  multiply, add    *)
(* and divide above are those of simple-agent.py.                          *)
(***************************************************************************)
\* how far the arguments of a direct call range: -ArgBound..ArgBound
ArgBound == 3

\* simple-tool-calling.py: return a + b
add_stc(a, b) == IntValue(a + b)

\* simple-tool-calling.py: return a * b
multiply_stc(a, b) == IntValue(a * b)

\* agent-memory.py: return a * b
multiply_am(a, b) == IntValue(a * b)

\* agent-memory.py: return a + b
add_am(a, b) == IntValue(a + b)

\* agent-memory.py: return a / b
divide_am(a, b) ==
    IF b = 0 THEN Raised("ZeroDivisionError('division by zero')")
    ELSE FloatValue(a, b)

\* create_react_agent.py: return a * b
multiply_react(a, b) == IntValue(a * b)

Scripts == {"simple_agent", "simple_tool_calling", "agent_memory", "create_react_agent"}

\* the tool functions a script defines
Functions(script) ==
    IF script = "simple_tool_calling" THEN {"add", "multiply"}
    ELSE IF script = "create_react_agent" THEN {"multiply"}
    ELSE {"multiply", "add", "divide"}

\* the body of function `name` of `script` on (a, b)
Apply(script, name, a, b) ==
    IF script = "simple_agent"
    THEN (IF name = "add" THEN add(a, b)
          ELSE IF name = "multiply" THEN multiply(a, b) ELSE divide(a, b))
    ELSE IF script = "simple_tool_calling"
    THEN (IF name = "add" THEN add_stc(a, b) ELSE multiply_stc(a, b))
    ELSE IF script = "agent_memory"
    THEN (IF name = "add" THEN add_am(a, b)
          ELSE IF name = "multiply" THEN multiply_am(a, b) ELSE divide_am(a, b))
    ELSE multiply_react(a, b)

\* the variables a direct call of a tool function leaves alone
graphVars == <<graph, handle_all, messages, pc, step, route, lastNode, invocations,
               checkpoint, fresh, llmCalls, completion, outcomes, error, results, runs>>

\* a script, one of its tool functions and two ints
ToolInit ==
    /\ tool_call \in {c \in [script : Scripts, name : {"multiply", "add", "divide"},
                            a : -ArgBound..ArgBound, b : -ArgBound..ArgBound] :
                         c.name \in Functions(c.script)}
    /\ tool_result = NoResult
    /\ graph = tool_call.script
    /\ handle_all = TRUE
    /\ messages = <<>>
    /\ pc = "idle"
    /\ step = 0
    /\ route = ""
    /\ lastNode = ""
    /\ invocations = 0
    /\ checkpoint = <<>>
    /\ fresh = 1
    /\ llmCalls = 0
    /\ completion = <<>>
    /\ outcomes = <<>>
    /\ error = ""
    /\ results = <<>>
    /\ runs = <<>>

\* the function is called
CallTool ==
    /\ tool_result = NoResult
    /\ tool_result' = Apply(tool_call.script, tool_call.name, tool_call.a, tool_call.b)
    /\ UNCHANGED tool_call
    /\ UNCHANGED graphVars

ToolNext == CallTool

ToolSpec == ToolInit /\ [][ToolNext]_vars

(***************************************************************************)
(* C11: for all ints a and b of the range, in every script that defines    *)
(* them, add returns the int a + b, multiply returns the int a * b, and    *)
(* for b # 0 divide returns the float a / b.                               *)
(***************************************************************************)
C11_ToolsCompute ==
    tool_result # NoResult =>
        LET a == tool_call.a
            b == tool_call.b
            r == tool_result
        IN  /\ tool_call.name = "add" =>
                  ~r.raised /\ r.kind = "int" /\ r.den = 1 /\ r.num = a + b
            /\ tool_call.name = "multiply" =>
                  ~r.raised /\ r.kind = "int" /\ r.den = 1 /\ r.num = a * b
            /\ (tool_call.name = "divide" /\ b # 0) =>
                  /\ ~r.raised
                  /\ r.kind = "float"
                  /\ r.den > 0
                  /\ r.num * b = a * r.den

C11_Witness ==
    /\ tool_call = [script |-> "simple_agent", name |-> "divide", a |-> 3, b |-> -2]
    /\ tool_result.kind = "float"
    /\ tool_result.num = -3
    /\ tool_result.den = 2

(***************************************************************************)
(* C14: in the graph of agent-memory.py, compiled with the checkpointer,   *)
(* the history the first invocation returned, followed by the human        *)
(* message of the second invocation, is a prefix of every history of the   *)
(* second invocation and of the history it returns; in the graphs of       *)
(* simple-agent.py, simple-tool-calling.py and create_react_agent.py,      *)
(* compiled without one, the history of an invocation starts with the      *)
(* human message passed in and holds no message of an earlier invocation.  *)
(***************************************************************************)
\* the histories the invocations of the script have returned so far, and the
\* history of the invocation in progress
Histories == IF pc \in {"idle", END} THEN results ELSE Append(results, messages)

\* history h opens with the k-th input of the script and holds no other input
OnlyPassedIn(h, k) ==
    /\ Len(h) > 0
    /\ h[1].type = "human"
    /\ h[1].content = Inputs(graph)[k]
    /\ \A j \in 2..Len(h) : h[j].type # "human"

C14_SecondRunExtendsFirst ==
    /\ (graph = "agent_memory" /\ Len(Histories) = 2) =>
          LET first == Histories[1]
              second == Histories[2]
          IN  /\ Len(second) > Len(first)
              /\ IsPrefix(first, second)
              /\ second[Len(first) + 1].type = "human"
              /\ second[Len(first) + 1].content = Inputs(graph)[2]
    /\ graph \in {"simple_agent", "simple_tool_calling", "create_react_agent"} =>
          \A k \in 1..Len(Histories) : OnlyPassedIn(Histories[k], k)

C14_Witness ==
    /\ graph = "agent_memory"
    /\ Len(results) = 2
    /\ Len(results[1]) >= 4
    /\ Len(results[2]) >= Len(results[1]) + 4

(***************************************************************************)
(* C15: whenever the Router is about to be evaluated, and whenever it has  *)
(* been evaluated and the run stands at its decision, the history is not   *)
(* empty and its last message is an assistant message.                     *)
(***************************************************************************)
C15_RouterSeesAssistant ==
    pc = "router" => (Len(messages) > 0 /\ Last(messages).type = "ai")

C15_Witness ==
    /\ pc = "router"
    /\ lastNode = AgentNode(graph)
    /\ Len(messages) >= 4
    /\ \E i \in 1..Len(messages) : messages[i].type = "tool"

(***************************************************************************)
(* Two invocations of one compiled graph, their supersteps interleaved in  *)
(* any order.  Each invocation holds its channels in its own loop; the     *)
(* compiled graph, its tool registry and, in agent-memory.py, the          *)
(* MemorySaver under thread_id "1" are shared.  Run r is runs[r].          *)
(***************************************************************************)
\* tool-requesting turns of the model explored in each of the two runs
MaxRunTurns == 1

RunIds == {1, 2}

Other(r) == 3 - r

\* the human message run r passes in: the script's r-th input, its only input
\* when it has one
RunInput(g, r) == Inputs(g)[IF r <= Len(Inputs(g)) THEN r ELSE 1]

\* the requests the inputs ask for, and a division by zero
RunMenu(g) ==
    IF g = "simple_tool_calling"
    THEN {Request("multiply", 2, 2), Request("add", 10, 2)}
    ELSE IF g = "create_react_agent"
    THEN {Request("multiply", 8, 7)}
    ELSE {Request("add_numbers", 3, 4), Request("divide", 7, 0)}

\* requesting turns since the last human message
RunTurns(msgs) ==
    Cardinality({i \in 1..Len(msgs) :
                    /\ Len(msgs[i].tool_calls) > 0
                    /\ \A j \in i..Len(msgs) : msgs[j].type # "human"})

RunResponses(g, msgs) ==
    {<<>>} \cup (IF RunTurns(msgs) < MaxRunTurns
                 THEN {<<c>> : c \in RunMenu(g)} ELSE {})

\* the first id no message and no request of the history carries
NextId(msgs) ==
    LET used == {0} \cup {msgs[i].id : i \in 1..Len(msgs)}
                    \cup UNION {{msgs[i].tool_calls[k].id :
                                    k \in 1..Len(msgs[i].tool_calls)} :
                                i \in 1..Len(msgs)}
    IN  1 + CHOOSE n \in used : \A m \in used : m <= n

NotStarted == [messages |-> <<>>, pc |-> "idle", step |-> 0, route |-> "", error |-> ""]

\* the variables of the scripts' own runs and of the direct calls
soloVars == <<messages, pc, step, route, lastNode, invocations, fresh, llmCalls,
              completion, outcomes, error, results, tool_call, tool_result>>

TwoInit ==
    /\ graph \in Graphs
    /\ handle_all \in BOOLEAN
    /\ checkpoint = <<>>
    /\ runs = [r \in RunIds |-> NotStarted]
    /\ messages = <<>>
    /\ pc = "idle"
    /\ step = 0
    /\ route = ""
    /\ lastNode = ""
    /\ invocations = 0
    /\ fresh = 1
    /\ llmCalls = 0
    /\ completion = <<>>
    /\ outcomes = <<>>
    /\ error = ""
    /\ results = <<>>
    /\ tool_call = NoCall
    /\ tool_result = NoResult

\* graph.invoke({"messages": messages}[, config]) of run r: with the
\* checkpointer the input is applied on top of the state saved under the thread
RunInvoke(r) ==
    /\ runs[r].pc = "idle"
    /\ LET saved == IF HasCheckpointer(graph) THEN checkpoint ELSE <<>>
           msgs == add_messages(saved, <<HumanMessage(RunInput(graph, r))>>,
                                NextId(saved))
       IN  /\ runs' = [runs EXCEPT ![r] = [@ EXCEPT !.messages = msgs,
                                                     !.pc = AgentNode(graph)]]
           /\ checkpoint' = Saved(msgs)
    /\ UNCHANGED <<graph, handle_all>>
    /\ UNCHANGED soloVars

\* the agent node of run r, the model call answering
RunAssistant(r) ==
    /\ runs[r].pc = AgentNode(graph)
    /\ runs[r].step < RecursionLimit
    /\ \E plan \in RunResponses(graph, runs[r].messages) :
          LET start == NextId(runs[r].messages)
              msgs == add_messages(runs[r].messages,
                                   AgentOutput(graph, Response(plan, start),
                                               runs[r].step),
                                   start)
          IN  /\ runs' = [runs EXCEPT ![r] = [@ EXCEPT !.messages = msgs,
                                                        !.pc = "router",
                                                        !.step = @ + 1,
                                                        !.route = ""]]
              /\ checkpoint' = Saved(msgs)
    /\ UNCHANGED <<graph, handle_all>>
    /\ UNCHANGED soloVars

\* the agent node of run r, the model call raising
RunAssistantFails(r) ==
    /\ runs[r].pc = AgentNode(graph)
    /\ runs[r].step < RecursionLimit
    /\ runs' = [runs EXCEPT ![r] = [@ EXCEPT !.pc = "failed",
                                                !.error = "APIConnectionError"]]
    /\ UNCHANGED <<graph, handle_all, checkpoint>>
    /\ UNCHANGED soloVars

\* the conditional edge of the agent node in run r
RunRoute(r) ==
    /\ runs[r].pc = "router"
    /\ LET decision == tools_condition(runs[r].messages)
       IN  runs' = [runs EXCEPT ![r] = [@ EXCEPT !.route = decision, !.pc = decision]]
    /\ UNCHANGED <<graph, handle_all, checkpoint>>
    /\ UNCHANGED soloVars

\* the tools node of run r
RunTools(r) ==
    /\ runs[r].pc = "tools"
    /\ runs[r].step < RecursionLimit
    /\ LET calls == Last(runs[r].messages).tool_calls
       IN  /\ ~Propagates(calls, graph, handle_all)
           /\ \E order \in Permutations(1..Len(calls)) :
                 LET msgs == add_messages(runs[r].messages,
                                          executor_map(calls, order, graph),
                                          NextId(runs[r].messages))
                 IN  /\ runs' = [runs EXCEPT ![r] = [@ EXCEPT !.messages = msgs,
                                                               !.pc = ToolsEdge(graph),
                                                               !.step = @ + 1,
                                                               !.route = ""]]
                     /\ checkpoint' = Saved(msgs)
    /\ UNCHANGED <<graph, handle_all>>
    /\ UNCHANGED soloVars

\* the tools node of run r, a tool body raising past ToolNode
RunToolsRaise(r) ==
    /\ runs[r].pc = "tools"
    /\ runs[r].step < RecursionLimit
    /\ Propagates(Last(runs[r].messages).tool_calls, graph, handle_all)
    /\ runs' = [runs EXCEPT ![r] = [@ EXCEPT !.pc = "failed",
                                                !.error = "ZeroDivisionError"]]
    /\ UNCHANGED <<graph, handle_all, checkpoint>>
    /\ UNCHANGED soloVars

TwoNext ==
    \/ \E r \in RunIds : RunInvoke(r)
    \/ \E r \in RunIds : RunAssistant(r)
    \/ \E r \in RunIds : RunAssistantFails(r)
    \/ \E r \in RunIds : RunRoute(r)
    \/ \E r \in RunIds : RunTools(r)
    \/ \E r \in RunIds : RunToolsRaise(r)

TwoRuns == TwoInit /\ [][TwoNext]_vars

(***************************************************************************)
(* Ownership of a history in the two interleaved runs.                     *)
(***************************************************************************)
\* the history of run r opens with the human message run r passed in and
\* holds no other human message: nothing in it comes from another invocation
Owns(r) ==
    LET h == runs[r].messages
    IN  h # <<>> =>
           /\ h[1].type = "human"
           /\ h[1].content = RunInput(graph, r)
           /\ \A j \in 2..Len(h) : h[j].type # "human"

\* the history of run r is messages of the other run, as far as that run had
\* saved them, followed by the input of run r and what run r appended
StartsFromSaved(r) ==
    LET h == runs[r].messages
    IN  \E k \in 2..Len(h) :
           /\ h[k].type = "human"
           /\ h[k].content = RunInput(graph, r)
           /\ \A j \in (k + 1)..Len(h) : h[j].type # "human"
           /\ IsPrefix(SubSeq(h, 1, k - 1), runs[Other(r)].messages)
           /\ Owns(Other(r))

\* Each of two interleaved runs owns its history, in every graph, the
\* checkpointed graph invoked twice with thread_id "1" included.
C13_EachRunOwnsHistory == \A r \in RunIds : Owns(r)

(***************************************************************************)
(* C13: two interleaved runs of a graph compiled without a checkpointer    *)
(* (simple-agent.py, simple-tool-calling.py, create_react_agent.py) each   *)
(* own their history; of                                                   *)
(* two interleaved runs of the checkpointed graph of agent-memory.py under *)
(* the same thread_id, each either owns its history or started from the    *)
(* history the other run had saved, so that its history and the routing    *)
(* decisions taken on it depend on the steps of the other run.             *)
(***************************************************************************)
C13_OwnsUnlessSameThread ==
    /\ graph \in {"simple_agent", "simple_tool_calling", "create_react_agent"} =>
          \A r \in RunIds : Owns(r)
    /\ graph = "agent_memory" => \A r \in RunIds : Owns(r) \/ StartsFromSaved(r)

C13_Witness ==
    /\ graph = "agent_memory"
    /\ runs[1].pc = "tools"
    /\ runs[2].route = "tools"
    /\ ~Owns(2)
    /\ StartsFromSaved(2)
    /\ runs[2].messages[1].content = RunInput(graph, 1)
    /\ Len(runs[2].messages) >= 4

====
